---------------------------- MODULE Spec2Model ----------------------------
(***************************************************************************)
(* A model of the packages of go-datastructures.                           *)
(*                                                                         *)
(* Package hashtable (src/pkg/hashTable/hashTable.go): a hash table with a *)
(* fixed number of buckets, separate chaining and FNV-1a hashing of string *)
(* keys.  Spec is a program that calls its methods one after another,      *)
(* SpecLoadFactor one that takes the load factor over a wider range of     *)
(* capacities, SpecCallers two goroutines that call Put and Delete.        *)
(*                                                                         *)
(* Package stack (src/unnamed/part_008): SpecStack.  Package sort          *)
(* (src/unnamed/part_004): SpecSort, and SpecPartition with partition      *)
(* called on its own.  Package fibonacci: SpecFibonacci.                   *)
(* Package euclidean: SpecEuclidean and SpecGCD.  A specification leaves   *)
(* the variables of the other packages as they are initially.              *)
(*                                                                         *)
(* Go's int is 32 or 64 bits wide depending on the build target; the       *)
(* model carries the width in intBits, because hash() converts the         *)
(* unsigned 32-bit sum to int before it takes the remainder.               *)
(*                                                                         *)
(* TLC's integers are 32-bit signed, so a 32-bit unsigned word is kept as  *)
(* a pair <<hi, lo>> of 16-bit halves wherever its value may pass 2^31.    *)
(***************************************************************************)
EXTENDS Integers, Sequences, FiniteSets, TLC

(***************************************************************************)
(* Bounds of the model.                                                    *)
(***************************************************************************)
NumKeys == 3          \* the keys used are the first NumKeys of KeyList
NumValues == 1        \* the values used are nil and 1..NumValues
MaxCapacity == 2      \* New is called with a capacity in -1..MaxCapacity
MaxLoadCapacity == 49 \* the load factor is taken for capacities up to it
MaxPushes == 3        \* Push is called MaxPushes times on a Stack
MaxLen == 3           \* the slices sorted have up to MaxLen elements
MaxFib == 12          \* FibonacciSum is called with n in -2..MaxFib
MaxAbs == 6           \* the GCD functions are called with a, b in -MaxAbs..MaxAbs
MaxCalls == 2         \* two concurrent callers begin MaxCalls calls in all

(***************************************************************************)
(* Program constants.                                                      *)
(***************************************************************************)
DefaultCapacity == 16         \* New: capacity = 16 when capacity <= 0
prime32 == 16777619           \* hash/fnv: the 32-bit FNV prime
offset32 == <<33052, 40389>>  \* hash/fnv: the offset basis 0x811c9dc5

\* The weight of the high half of a word.
Half == 2^16

\* Go's nil as a value of type any.
Nil == 0

KeyList == <<"", "key1", "key2", "a", "key3", "b", "key4">>

\* []byte(key): the bytes of each key of KeyList.
Bytes(k) ==
  CASE k = ""     -> <<>>
    [] k = "a"    -> <<97>>
    [] k = "b"    -> <<98>>
    [] k = "key1" -> <<107, 101, 121, 49>>
    [] k = "key2" -> <<107, 101, 121, 50>>
    [] k = "key3" -> <<107, 101, 121, 51>>
    [] k = "key4" -> <<107, 101, 121, 52>>

KeySet == {KeyList[i] : i \in 1..NumKeys}
ValueSet == 0..NumValues
ReqCapacities == (-1)..MaxCapacity
IntWidths == {32, 64}

VARIABLES
  intBits,    \* width of Go's int in this build: 32 or 64
  requested,  \* the capacity New was called with
  capacity,   \* ht.capacity
  size,       \* ht.size
  buckets,    \* ht.buckets: [0..capacity-1 -> Seq([key, value])]
  op,         \* the last call: "New", "Put", "Get", "Delete", "Clear", ...
              \* (of a Stack: "Stack", "Push", "Pop", ...; of a function:
              \* the function called)
  key,        \* its key argument ("" when it has none)
  value,      \* its value argument (Nil when it has none)
  ret,        \* what it returned: [val, ok]
  index,      \* the bucket index hash() computed in it (0 when none)
  panicked,   \* TRUE once a call has panicked (index out of range)
  sizeBefore, \* history: ht.size when the last call began
  shadow,     \* history: key -> value of its latest Put, for the keys
              \* put and not deleted or cleared since
  callers,    \* the goroutines that call Put and Delete on one store:
              \* caller -> the position and the locals of its call
  mutex,      \* the caller that holds the callers' lock, Nil when free
  locking,    \* TRUE when the callers run every call under the lock
  calls,      \* the number of calls the callers have begun
  first,      \* Stack.first: the address of the top Node, Nil when empty
  nodes,      \* the Nodes in memory: address -> [Value, Next]
  pushes,     \* history: the number of Push calls
  pops,       \* history: the number of Pop calls that returned true
  pending,    \* history: the values pushed and not yet popped, in the
              \* order of their Push
  frames,     \* the call stack of the goroutine that runs a function of
              \* package sort, fibonacci or euclidean; the last frame is
              \* the running one
  array,      \* the slice QuickSort works on: [0..len-1 -> int]
  input,      \* history: the arguments of the outermost call
  result      \* what the call that returned last has returned

htVars == <<intBits, requested, capacity, size, buckets, op, key, value, ret,
            index, panicked, sizeBefore, shadow>>
callerVars == <<callers, mutex, locking, calls>>
stackVars == <<first, nodes, pushes, pops, pending>>
frameVars == <<frames, array, input, result>>

vars == <<htVars, callerVars, stackVars, frameVars>>

store == <<capacity, size, buckets>>

(***************************************************************************)
(* hash/fnv New32a, Write, Sum32.                                          *)
(***************************************************************************)
RECURSIVE XorBits(_, _, _)
XorBits(a, b, n) ==
  IF n = 0 THEN 0
  ELSE ((a + b) % 2) + 2 * XorBits(a \div 2, b \div 2, n - 1)

\* One step of Write: hash ^= byte; hash *= prime32 (mod 2^32).
fnvStep(w, b) ==
  LET lo1  == (w[2] \div 256) * 256 + XorBits(w[2] % 256, b, 8)
      ph   == prime32 \div Half
      pl   == prime32 % Half
      low  == lo1 * pl
  IN  << (w[1] * pl + lo1 * ph + low \div Half) % Half, low % Half >>

RECURSIVE fnvWrite(_, _)
fnvWrite(w, bytes) ==
  IF bytes = <<>> THEN w
  ELSE fnvWrite(fnvStep(w, Head(bytes)), Tail(bytes))

\* hasher := fnv.New32a(); hasher.Write([]byte(key)); hasher.Sum32()
Sum32(k) == fnvWrite(offset32, Bytes(k))

\* Sum32 of every key of the model, computed once.
SumOf == [k \in KeySet |-> Sum32(k)]

(***************************************************************************)
(* int(h) % capacity.                                                      *)
(***************************************************************************)
\* int(h) < 0: the conversion of a uint32 to a 32-bit int keeps the bits,
\* so the top bit becomes the sign; a 64-bit int holds every uint32.
IntIsNegative(w, bits) == bits = 32 /\ w[1] >= Half \div 2

\* |int(h)| for a negative int(h): 2^32 - h, as a word.
Negate(w) ==
  << (Half - 1 - w[1] + (IF w[2] = 0 THEN 1 ELSE 0)) % Half,
     (Half - w[2]) % Half >>

\* The word's value modulo m (m > 0).
WordMod(w, m) == ((w[1] % m) * (Half % m) + (w[2] % m)) % m

\* Go's x % m for x = int(h): the remainder has the sign of x.
IntRem(w, bits, m) ==
  IF IntIsNegative(w, bits) THEN 0 - WordMod(Negate(w), m)
  ELSE WordMod(w, m)

\* func (ht *HashTable) hash(key string) int
hash(k) == IntRem(SumOf[k], intBits, capacity)

\* ht.buckets[index] panics unless 0 <= index < len(ht.buckets).
InRange(i) == i \in DOMAIN buckets

(***************************************************************************)
(* Construction.                                                           *)
(***************************************************************************)
\* NewCapacity with the test "capacity < 0".
NewCapacityAcceptsZero(c) == IF c < 0 THEN DefaultCapacity ELSE c

\* New: the capacity used for a requested one.
NewCapacity(c) == IF c <= 0 THEN DefaultCapacity ELSE c

NoRet == [val |-> Nil, ok |-> FALSE]

New(c) ==
  /\ capacity = NewCapacity(c)
  /\ buckets = [i \in 0..(NewCapacity(c) - 1) |-> <<>>]
  /\ size = 0

\* No goroutine calls a store concurrently.
NoCallers ==
  /\ callers = <<>>
  /\ mutex = Nil
  /\ locking = FALSE
  /\ calls = 0

\* An empty Stack.
NoStack ==
  /\ first = Nil
  /\ nodes = <<>>
  /\ pushes = 0
  /\ pops = 0
  /\ pending = <<>>

\* No function of package sort, fibonacci or euclidean is running.
NoFrames ==
  /\ frames = <<>>
  /\ array = <<>>
  /\ input = <<>>
  /\ result = <<>>

\* No call has been made yet.
NoCall ==
  /\ key = ""
  /\ value = Nil
  /\ ret = NoRet
  /\ index = 0
  /\ panicked = FALSE
  /\ sizeBefore = 0
  /\ shadow = <<>>

\* A program that works on one store made by New(c), c in capacities.
InitWith(capacities) ==
  /\ intBits \in IntWidths
  /\ requested \in capacities
  /\ New(requested)
  /\ op = "New"
  /\ NoCall
  /\ NoCallers
  /\ NoStack
  /\ NoFrames

Init == InitWith(ReqCapacities)

(***************************************************************************)
(* The scan of a bucket: for i, pair := range bucket { if pair.key == key  *)
(* The position of the first entry with the key, 0 when there is none.     *)
(***************************************************************************)
\* Find with the scan stopping after the first entry of the bucket.
FindFirstOnly(bucket, k) ==
  IF Len(bucket) >= 1 /\ bucket[1].key = k THEN 1 ELSE 0

Find(bucket, k) ==
  IF \E i \in 1..Len(bucket) : bucket[i].key = k
  THEN CHOOSE i \in 1..Len(bucket) :
         /\ bucket[i].key = k
         /\ \A j \in 1..(i - 1) : bucket[j].key # k
  ELSE 0

\* A call that panics at ht.buckets[index]: nothing is written, nothing is
\* returned, and the program ends.
Panic(o, k, v, idx) ==
  /\ op' = o
  /\ key' = k
  /\ value' = v
  /\ index' = idx
  /\ ret' = NoRet
  /\ panicked' = TRUE
  /\ sizeBefore' = size
  /\ UNCHANGED <<intBits, requested, capacity, size, buckets, shadow>>
  /\ UNCHANGED <<callerVars, stackVars, frameVars>>

Returns(o, k, v, idx, r) ==
  /\ op' = o
  /\ key' = k
  /\ value' = v
  /\ index' = idx
  /\ ret' = r
  /\ panicked' = FALSE
  /\ sizeBefore' = size
  /\ UNCHANGED <<intBits, requested, capacity>>
  /\ UNCHANGED <<callerVars, stackVars, frameVars>>

(***************************************************************************)
(* Put                                                                     *)
(***************************************************************************)
\* PutAt appending a new entry to the first bucket, whatever the index.
PutAtFirstBucket(idx, k, v) ==
  LET bucket == buckets[idx]
      i == Find(bucket, k)
  IN  IF i # 0
      THEN /\ buckets' = [buckets EXCEPT ![idx][i].value = v]
           /\ size' = size
           /\ Returns("Put", k, v, idx, [val |-> Nil, ok |-> FALSE])
      ELSE /\ buckets' = [buckets EXCEPT
                            ![0] = Append(buckets[0], [key |-> k, value |-> v])]
           /\ size' = size + 1
           /\ Returns("Put", k, v, idx, [val |-> Nil, ok |-> TRUE])

\* PutAt storing a new key as the only entry of its bucket.
PutAtReplacesBucket(idx, k, v) ==
  LET bucket == buckets[idx]
      i == Find(bucket, k)
  IN  IF i # 0
      THEN /\ buckets' = [buckets EXCEPT ![idx][i].value = v]
           /\ size' = size
           /\ Returns("Put", k, v, idx, [val |-> Nil, ok |-> FALSE])
      ELSE /\ buckets' = [buckets EXCEPT
                            ![idx] = <<[key |-> k, value |-> v]>>]
           /\ size' = size + 1
           /\ Returns("Put", k, v, idx, [val |-> Nil, ok |-> TRUE])

\* Put from "bucket := ht.buckets[index]" on, for an index in range.
PutAt(idx, k, v) ==
  LET bucket == buckets[idx]
      i == Find(bucket, k)
  IN  IF i # 0
      THEN /\ buckets' = [buckets EXCEPT ![idx][i].value = v]
           /\ size' = size
           /\ Returns("Put", k, v, idx, [val |-> Nil, ok |-> FALSE])
      ELSE /\ buckets' = [buckets EXCEPT
                            ![idx] = Append(bucket, [key |-> k, value |-> v])]
           /\ size' = size + 1
           /\ Returns("Put", k, v, idx, [val |-> Nil, ok |-> TRUE])

Put(k, v) ==
  /\ ~panicked
  /\ LET idx == hash(k)
     IN  IF InRange(idx)
         THEN /\ PutAt(idx, k, v)
              /\ shadow' = [j \in DOMAIN shadow \cup {k} |->
                              IF j = k THEN v ELSE shadow[j]]
         ELSE Panic("Put", k, v, idx)

(***************************************************************************)
(* Get and Contains.  Get(k) is what the call returns in the current state *)
(* when its index is in range; CallGet is the call.                        *)
(***************************************************************************)
Get(k) ==
  LET bucket == buckets[hash(k)]
      i == Find(bucket, k)
  IN  IF i # 0 THEN [val |-> bucket[i].value, ok |-> TRUE]
      ELSE [val |-> Nil, ok |-> FALSE]

\* Contains reporting whether the value found is not nil.
ContainsByValue(k) == Get(k).val # Nil

\* func (ht *HashTable) Contains(key string) bool
Contains(k) == Get(k).ok

\* The bucket with its entry at position i moved to the front.
MoveToFront(bucket, i) ==
  <<bucket[i]>> \o SubSeq(bucket, 1, i - 1)
               \o SubSeq(bucket, i + 1, Len(bucket))

\* Get moving the entry it finds to the front of its bucket.
CallGetMovesToFront(k) ==
  /\ ~panicked
  /\ LET idx == hash(k)
     IN  IF InRange(idx)
         THEN /\ Returns("Get", k, Nil, idx, Get(k))
              /\ buckets' =
                   IF Get(k).ok
                   THEN [buckets EXCEPT
                           ![idx] = MoveToFront(@, Find(@, k))]
                   ELSE buckets
              /\ UNCHANGED <<size, shadow>>
         ELSE Panic("Get", k, Nil, idx)

CallGet(k) ==
  /\ ~panicked
  /\ LET idx == hash(k)
     IN  IF InRange(idx)
         THEN /\ Returns("Get", k, Nil, idx, Get(k))
              /\ UNCHANGED <<size, buckets, shadow>>
         ELSE Panic("Get", k, Nil, idx)

\* The call of Contains.
CallContains(k) ==
  /\ ~panicked
  /\ LET idx == hash(k)
     IN  IF InRange(idx)
         THEN /\ Returns("Contains", k, Nil, idx,
                         [val |-> Nil, ok |-> Contains(k)])
              /\ UNCHANGED <<size, buckets, shadow>>
         ELSE Panic("Contains", k, Nil, idx)

(***************************************************************************)
(* Delete                                                                  *)
(***************************************************************************)
\* RemoveAt as append(bucket[:i], bucket[i:]...): the entry stays.
RemoveAtKeepsEntry(bucket, i) ==
  SubSeq(bucket, 1, i - 1) \o SubSeq(bucket, i, Len(bucket))

\* RemoveAt as bucket[:i]: the entries after the removed one go with it.
RemoveAtTruncates(bucket, i) == SubSeq(bucket, 1, i - 1)

\* RemoveAt moving the last entry into the place of the removed one.
RemoveAtMovesLast(bucket, i) ==
  IF i = Len(bucket) THEN SubSeq(bucket, 1, i - 1)
  ELSE [SubSeq(bucket, 1, Len(bucket) - 1) EXCEPT ![i] = bucket[Len(bucket)]]

\* append(bucket[:i], bucket[i+1:]...), for the 1-based position i.
RemoveAt(bucket, i) ==
  SubSeq(bucket, 1, i - 1) \o SubSeq(bucket, i + 1, Len(bucket))

\* DeleteAt without "ht.size--".
DeleteAtKeepSize(idx, k) ==
  LET bucket == buckets[idx]
      i == Find(bucket, k)
  IN  IF i # 0
      THEN /\ buckets' = [buckets EXCEPT ![idx] = RemoveAt(bucket, i)]
           /\ size' = size
           /\ Returns("Delete", k, Nil, idx, [val |-> Nil, ok |-> TRUE])
      ELSE /\ UNCHANGED <<buckets, size>>
           /\ Returns("Delete", k, Nil, idx, [val |-> Nil, ok |-> FALSE])

\* Delete from "bucket := ht.buckets[index]" on, for an index in range.
DeleteAt(idx, k) ==
  LET bucket == buckets[idx]
      i == Find(bucket, k)
  IN  IF i # 0
      THEN /\ buckets' = [buckets EXCEPT ![idx] = RemoveAt(bucket, i)]
           /\ size' = size - 1
           /\ Returns("Delete", k, Nil, idx, [val |-> Nil, ok |-> TRUE])
      ELSE /\ UNCHANGED <<buckets, size>>
           /\ Returns("Delete", k, Nil, idx, [val |-> Nil, ok |-> FALSE])

Delete(k) ==
  /\ ~panicked
  /\ LET idx == hash(k)
     IN  IF InRange(idx)
         THEN /\ DeleteAt(idx, k)
              /\ shadow' = [j \in DOMAIN shadow \ {k} |-> shadow[j]]
         ELSE Panic("Delete", k, Nil, idx)

(***************************************************************************)
(* Clear                                                                   *)
(***************************************************************************)
\* The loop of Clear starting at the second bucket.
ClearBucketsButFirst(b) ==
  [i \in DOMAIN b |-> IF i = 0 THEN b[i] ELSE <<>>]

\* Clear as "ht.buckets = nil": the bucket array itself is dropped.
ClearBucketsDropsArray(b) == <<>>

\* for i := range ht.buckets { ht.buckets[i] = nil }
ClearBuckets(b) == [i \in DOMAIN b |-> <<>>]

\* Clear without "ht.size = 0".
ClearKeepsSize ==
  /\ ~panicked
  /\ buckets' = ClearBuckets(buckets)
  /\ size' = size
  /\ shadow' = <<>>
  /\ Returns("Clear", "", Nil, 0, NoRet)

Clear ==
  /\ ~panicked
  /\ buckets' = ClearBuckets(buckets)
  /\ size' = 0
  /\ shadow' = <<>>
  /\ Returns("Clear", "", Nil, 0, NoRet)

(***************************************************************************)
(* Size, IsEmpty, Keys, Values, GetPairs                                   *)
(***************************************************************************)
Size == size

IsEmpty == size = 0

\* for _, bucket := range ht.buckets { for _, pair := range bucket {
\* The entries of buckets[from..capacity-1], bucket after bucket.
RECURSIVE Entries(_)
Entries(from) ==
  IF from >= capacity THEN <<>>
  ELSE buckets[from] \o Entries(from + 1)

\* Keys starting its traversal at the second bucket.
KeysFromSecondBucket == [i \in 1..Len(Entries(1)) |-> Entries(1)[i].key]

\* func (ht *HashTable) Keys() []string
Keys == [i \in 1..Len(Entries(0)) |-> Entries(0)[i].key]

\* The entries of buckets[0..upto], last bucket first.
RECURSIVE EntriesDown(_)
EntriesDown(upto) ==
  IF upto < 0 THEN <<>>
  ELSE buckets[upto] \o EntriesDown(upto - 1)

\* Values traversing the buckets from the last to the first.
ValuesBackwards ==
  [i \in 1..Len(EntriesDown(capacity - 1)) |->
     EntriesDown(capacity - 1)[i].value]

\* func (ht *HashTable) Values() []any
Values == [i \in 1..Len(Entries(0)) |-> Entries(0)[i].value]

\* func (ht *HashTable) GetPairs() []KeyValuePair
GetPairs == Entries(0)

(***************************************************************************)
(* LoadFactor, BucketDistribution, String                                  *)
(***************************************************************************)
RECURSIVE Gcd(_, _)
Gcd(a, b) == IF b = 0 THEN a ELSE Gcd(b, a % b)

\* float64(n) / float64(d) for small n >= 0 and d > 0, kept as the fraction
\* in lowest terms (two such quotients are the same float64 exactly when
\* they are the same fraction).
Quotient(n, d) == <<n \div Gcd(n, d), d \div Gcd(n, d)>>

\* The width of the significand of a float64.
MantissaBits == 53

\* The largest t, negative when n < d, with 2^t * d <= n, for n, d >= 1.
RECURSIVE Log2Quo(_, _)
Log2Quo(n, d) ==
  IF n >= 2 * d THEN Log2Quo(n, 2 * d) + 1
  ELSE IF n < d THEN Log2Quo(2 * n, d) - 1
  ELSE 0

\* 2^e modulo m.
RECURSIVE PowMod(_, _)
PowMod(e, m) == IF e = 0 THEN 1 % m ELSE (2 * PowMod(e - 1, m)) % m

\* The rounding of float64(n) / float64(d) for n, d >= 1.  The quotient q
\* is the multiple of 2^-exp nearest to n / d, a tie going to the even
\* multiple, where exp puts n * 2^exp / d in [2^52, 2^53); the record
\* holds exp and err with q * d = n + err / 2^exp.  rest is the remainder
\* of n * 2^exp by d, odd tells whether the quotient rounded down is odd.
QuoError(n, d) ==
  LET exp == (MantissaBits - 1) - Log2Quo(n, d)
      rest == (n * PowMod(exp, d)) % d
      odd == ((n * PowMod(exp, 2 * d)) % (2 * d)) - rest = d
  IN  [exp |-> exp,
       err |-> IF 2 * rest < d \/ (2 * rest = d /\ ~odd)
               THEN 0 - rest
               ELSE d - rest]

\* LoadFactor dividing the integers before the conversion to float64.
LoadFactorIntegerDivision ==
  IF capacity = 0 THEN <<0, 1>>
  ELSE <<size \div capacity, 1>>

\* func (ht *HashTable) LoadFactor() float64
LoadFactor ==
  IF capacity = 0 THEN <<0, 1>>
  ELSE Quotient(size, capacity)

\* BucketDistribution tallying only the buckets that hold an entry.
BucketDistributionSkipsEmpty ==
  [l \in {Len(buckets[b]) : b \in DOMAIN buckets} \ {0} |->
     Cardinality({b \in DOMAIN buckets : Len(buckets[b]) = l})]

\* func (ht *HashTable) BucketDistribution() map[int]int
BucketDistribution ==
  [l \in {Len(buckets[b]) : b \in DOMAIN buckets} |->
     Cardinality({b \in DOMAIN buckets : Len(buckets[b]) = l})]

\* "%.2f" of a fraction, in hundredths.  A tie is rounded to the even
\* digit: the fractions of the model that tie have a power of two as their
\* denominator and are exact as float64.
Hundredths(q) ==
  LET n == 100 * q[1]
      whole == n \div q[2]
      rest == n % q[2]
  IN  IF 2 * rest > q[2] THEN whole + 1
      ELSE IF 2 * rest = q[2] THEN whole + (whole % 2)
      ELSE whole

\* The "Bucket %d: [k: v] -> [k: v]" lines of buckets[from..capacity-1].
RECURSIVE BucketLines(_)
BucketLines(from) ==
  IF from >= capacity THEN <<>>
  ELSE (IF Len(buckets[from]) > 0
        THEN <<[bucket |-> from, pairs |-> buckets[from]]>>
        ELSE <<>>) \o BucketLines(from + 1)

\* func (ht *HashTable) String() string: the header line, then one line for
\* every bucket that is not empty.
String ==
  <<[size |-> size, capacity |-> capacity,
     loadFactor |-> Hundredths(LoadFactor)]>> \o BucketLines(0)

(***************************************************************************)
(* The calls of the methods that take no key.                              *)
(***************************************************************************)
Query(o, r) ==
  /\ ~panicked
  /\ Returns(o, "", Nil, 0, r)
  /\ UNCHANGED <<size, buckets, shadow>>

CallSize == Query("Size", [val |-> Size, ok |-> FALSE])

CallIsEmpty == Query("IsEmpty", [val |-> Nil, ok |-> IsEmpty])

CallKeys == Query("Keys", [val |-> Keys, ok |-> FALSE])

CallValues == Query("Values", [val |-> Values, ok |-> FALSE])

CallGetPairs == Query("GetPairs", [val |-> GetPairs, ok |-> FALSE])

CallLoadFactor == Query("LoadFactor", [val |-> LoadFactor, ok |-> FALSE])

CallBucketDistribution ==
  Query("BucketDistribution", [val |-> BucketDistribution, ok |-> FALSE])

CallString == Query("String", [val |-> String, ok |-> FALSE])

Next ==
  \/ \E k \in KeySet, v \in ValueSet : Put(k, v)
  \/ \E k \in KeySet : CallGet(k)
  \/ \E k \in KeySet : CallContains(k)
  \/ \E k \in KeySet : Delete(k)
  \/ Clear
  \/ CallSize
  \/ CallIsEmpty
  \/ CallKeys
  \/ CallValues
  \/ CallGetPairs
  \/ CallLoadFactor
  \/ CallBucketDistribution
  \/ CallString

Spec == Init /\ [][Next]_vars

(***************************************************************************)
(* The load factor over a wider range of capacities: a store made by       *)
(* New(c) for c in 1..MaxLoadCapacity, filled and emptied by Put, Delete   *)
(* and Clear.                                                              *)
(***************************************************************************)
LoadCapacities == 1..MaxLoadCapacity

InitLoadFactor == InitWith(LoadCapacities)

NextLoadFactor ==
  \/ \E k \in KeySet, v \in ValueSet : Put(k, v)
  \/ \E k \in KeySet : Delete(k)
  \/ Clear
  \/ CallLoadFactor

SpecLoadFactor == InitLoadFactor /\ [][NextLoadFactor]_vars


(***************************************************************************)
(* Put and Delete called by two goroutines on one store.  Nothing in       *)
(* package hashtable synchronises them, so a call is a sequence of reads   *)
(* and writes of ht.buckets[index] and ht.size that interleaves with the   *)
(* other caller's: bucket := ht.buckets[index]; the scan of bucket; the    *)
(* write of the updated value, of the appended bucket or of the shortened  *)
(* bucket; the read of ht.size and the write of ht.size.  When locking is  *)
(* TRUE the callers impose the external synchronisation the README asks    *)
(* for: each takes one lock before its call and frees it after.            *)
(*                                                                         *)
(* A bucket read by a caller is kept as the sequence of its entries at the *)
(* time of the read; the sharing of a backing array between the slices of  *)
(* two callers adds outcomes to the unsynchronised runs and none to the    *)
(* synchronised ones.                                                      *)
(***************************************************************************)
Callers == {1, 2}

\* A caller that runs no call.
Idle ==
  [pc |-> "idle", op |-> "", key |-> "", value |-> Nil, index |-> 0,
   bucket |-> <<>>, i |-> 0, size |-> 0, ok |-> FALSE]

InitCallers ==
  /\ intBits \in IntWidths
  /\ requested \in 1..MaxCapacity
  /\ New(requested)
  /\ op = "New"
  /\ NoCall
  /\ callers = [t \in Callers |-> Idle]
  /\ mutex = Nil
  /\ locking \in BOOLEAN
  /\ calls = 0
  /\ NoStack
  /\ NoFrames

\* What no step of a caller changes.
callerFrame ==
  <<intBits, requested, capacity, op, key, value, ret, index, sizeBefore,
    locking, stackVars, frameVars>>

\* Begin taking the lock without waiting for it to be free.
BeginWithoutLock(t, o, k, v) ==
  /\ ~panicked
  /\ callers[t].pc = "idle"
  /\ calls < MaxCalls
  /\ mutex' = IF locking THEN t ELSE mutex
  /\ calls' = calls + 1
  /\ callers' = [callers EXCEPT ![t] =
                   [Idle EXCEPT !.pc = "read", !.op = o, !.key = k,
                                !.value = v, !.index = hash(k)]]
  /\ UNCHANGED <<size, buckets, shadow, panicked, callerFrame>>

\* A caller begins Put(k, v) or Delete(k): it takes the lock when the
\* callers use one, and computes index := ht.hash(key).
Begin(t, o, k, v) ==
  /\ ~panicked
  /\ callers[t].pc = "idle"
  /\ calls < MaxCalls
  /\ IF locking THEN mutex = Nil /\ mutex' = t ELSE UNCHANGED mutex
  /\ calls' = calls + 1
  /\ callers' = [callers EXCEPT ![t] =
                   [Idle EXCEPT !.pc = "read", !.op = o, !.key = k,
                                !.value = v, !.index = hash(k)]]
  /\ UNCHANGED <<size, buckets, shadow, panicked, callerFrame>>

\* bucket := ht.buckets[index]
ReadBucket(t) ==
  /\ ~panicked
  /\ callers[t].pc = "read"
  /\ IF InRange(callers[t].index)
     THEN /\ callers' = [callers EXCEPT
                           ![t].bucket = buckets[callers[t].index],
                           ![t].pc = "scan"]
          /\ UNCHANGED panicked
     ELSE /\ panicked' = TRUE
          /\ UNCHANGED callers
  /\ UNCHANGED <<size, buckets, shadow, mutex, calls, callerFrame>>

\* The caller's call returns: it frees the lock when the callers use one.
\* shadow gains the key a Put has stored and loses the key a Delete has
\* removed.
Return(t, ok) ==
  /\ callers' = [callers EXCEPT ![t].pc = "idle", ![t].ok = ok]
  /\ mutex' = IF locking THEN Nil ELSE mutex
  /\ shadow' =
       IF callers[t].op = "Put"
       THEN [j \in DOMAIN shadow \cup {callers[t].key} |->
               IF j = callers[t].key THEN callers[t].value ELSE shadow[j]]
       ELSE IF ok
       THEN [j \in DOMAIN shadow \ {callers[t].key} |-> shadow[j]]
       ELSE shadow

\* for i, pair := range bucket { if pair.key == key {
ScanBucket(t) ==
  /\ ~panicked
  /\ callers[t].pc = "scan"
  /\ LET i == Find(callers[t].bucket, callers[t].key)
     IN  IF i = 0 /\ callers[t].op = "Delete"
         THEN Return(t, FALSE)
         ELSE /\ callers' = [callers EXCEPT
                               ![t].i = i,
                               ![t].pc = IF i = 0 THEN "append"
                                         ELSE IF callers[t].op = "Put"
                                         THEN "update"
                                         ELSE "remove"]
              /\ UNCHANGED <<mutex, shadow>>
  /\ UNCHANGED <<size, buckets, panicked, calls, callerFrame>>

\* Put: ht.buckets[index][i].value = value; return.  The bucket indexed is
\* the one the store holds now.
UpdateValue(t) ==
  /\ ~panicked
  /\ callers[t].pc = "update"
  /\ IF callers[t].i <= Len(buckets[callers[t].index])
     THEN /\ buckets' = [buckets EXCEPT
                           ![callers[t].index][callers[t].i].value =
                             callers[t].value]
          /\ Return(t, FALSE)
          /\ UNCHANGED panicked
     ELSE /\ panicked' = TRUE
          /\ UNCHANGED <<buckets, callers, mutex, shadow>>
  /\ UNCHANGED <<size, calls, callerFrame>>

\* Put: ht.buckets[index] = append(bucket, KeyValue{key, value})
AppendEntry(t) ==
  /\ ~panicked
  /\ callers[t].pc = "append"
  /\ buckets' = [buckets EXCEPT
                   ![callers[t].index] =
                     Append(callers[t].bucket,
                            [key |-> callers[t].key,
                             value |-> callers[t].value])]
  /\ callers' = [callers EXCEPT ![t].pc = "size"]
  /\ UNCHANGED <<size, shadow, panicked, mutex, calls, callerFrame>>

\* Delete: ht.buckets[index] = append(bucket[:i], bucket[i+1:]...)
RemoveEntry(t) ==
  /\ ~panicked
  /\ callers[t].pc = "remove"
  /\ buckets' = [buckets EXCEPT
                   ![callers[t].index] =
                     RemoveAt(callers[t].bucket, callers[t].i)]
  /\ callers' = [callers EXCEPT ![t].pc = "size"]
  /\ UNCHANGED <<size, shadow, panicked, mutex, calls, callerFrame>>

\* ht.size++ and ht.size--: the read of ht.size.
ReadSize(t) ==
  /\ ~panicked
  /\ callers[t].pc = "size"
  /\ callers' = [callers EXCEPT ![t].size = size, ![t].pc = "write"]
  /\ UNCHANGED <<size, buckets, shadow, panicked, mutex, calls, callerFrame>>

\* ht.size++ and ht.size--: the write of ht.size; return.
WriteSize(t) ==
  /\ ~panicked
  /\ callers[t].pc = "write"
  /\ size' = IF callers[t].op = "Put" THEN callers[t].size + 1
             ELSE callers[t].size - 1
  /\ Return(t, TRUE)
  /\ UNCHANGED <<buckets, panicked, calls, callerFrame>>

NextCallers ==
  \E t \in Callers :
    \/ \E k \in KeySet, v \in ValueSet : Begin(t, "Put", k, v)
    \/ \E k \in KeySet : Begin(t, "Delete", k, Nil)
    \/ ReadBucket(t)
    \/ ScanBucket(t)
    \/ UpdateValue(t)
    \/ AppendEntry(t)
    \/ RemoveEntry(t)
    \/ ReadSize(t)
    \/ WriteSize(t)

SpecCallers == InitCallers /\ [][NextCallers]_vars

(***************************************************************************)
(* Package stack (src/unnamed/part_008): a Stack is a pointer to the top   *)
(* Node of a singly linked list.  nodes is the memory that holds the       *)
(* Nodes; a Node that Pop unlinks is unreachable and leaves it.            *)
(***************************************************************************)
\* No store has been made.
NoHashTable ==
  /\ requested = 0
  /\ capacity = 0
  /\ size = 0
  /\ buckets = <<>>

\* s := &Stack{}
InitStack ==
  /\ intBits \in IntWidths
  /\ NoHashTable
  /\ op = "Stack"
  /\ NoCall
  /\ NoCallers
  /\ NoStack
  /\ NoFrames

\* What no method of Stack changes.
stackFrame ==
  <<intBits, requested, capacity, size, buckets, key, index, panicked,
    sizeBefore, shadow, callerVars, frameVars>>

StackReturns(o, v, r) ==
  /\ op' = o
  /\ value' = v
  /\ ret' = r
  /\ UNCHANGED stackFrame

\* &Node{...}: the address of a Node that is not in use.
NewNode == CHOOSE a \in 1..(Cardinality(DOMAIN nodes) + 1) : a \notin DOMAIN nodes

\* Push linking the new Node below the top Node of a Stack that is not
\* empty.
PushBelowFirst(v) ==
  /\ pushes < MaxPushes
  /\ LET a == NewNode
     IN  IF first = Nil
         THEN /\ nodes' = [x \in DOMAIN nodes \cup {a} |->
                             IF x = a THEN [Value |-> v, Next |-> first]
                             ELSE nodes[x]]
              /\ first' = a
         ELSE /\ nodes' = [x \in DOMAIN nodes \cup {a} |->
                             IF x = a
                             THEN [Value |-> v, Next |-> nodes[first].Next]
                             ELSE IF x = first
                             THEN [nodes[x] EXCEPT !.Next = a]
                             ELSE nodes[x]]
              /\ first' = first
  /\ pushes' = pushes + 1
  /\ pops' = pops
  /\ pending' = Append(pending, v)
  /\ StackReturns("Push", v, NoRet)

\* func (s *Stack) Push(value any)
Push(v) ==
  /\ pushes < MaxPushes
  /\ LET a == NewNode
     IN  /\ nodes' = [x \in DOMAIN nodes \cup {a} |->
                        IF x = a THEN [Value |-> v, Next |-> first]
                        ELSE nodes[x]]
         /\ first' = a
  /\ pushes' = pushes + 1
  /\ pops' = pops
  /\ pending' = Append(pending, v)
  /\ StackReturns("Push", v, NoRet)

\* func (s *Stack) Pop() (any, bool)
Pop ==
  IF first = Nil
  THEN /\ UNCHANGED stackVars
       /\ StackReturns("Pop", Nil, NoRet)
  ELSE /\ first' = nodes[first].Next
       /\ nodes' = [x \in DOMAIN nodes \ {first} |-> nodes[x]]
       /\ pushes' = pushes
       /\ pops' = pops + 1
       /\ pending' = SubSeq(pending, 1, Len(pending) - 1)
       /\ StackReturns("Pop", Nil, [val |-> nodes[first].Value, ok |-> TRUE])

\* Peek returning true for an empty Stack too.
PeekAlwaysTrue ==
  IF first = Nil THEN [val |-> Nil, ok |-> TRUE]
  ELSE [val |-> nodes[first].Value, ok |-> TRUE]

\* func (s *Stack) Peek() (any, bool)
Peek ==
  IF first = Nil THEN NoRet
  ELSE [val |-> nodes[first].Value, ok |-> TRUE]

\* for aux := a; aux != nil; aux = aux.Next { values = append(values,
\* aux.Value) }
RECURSIVE ChainValues(_)
ChainValues(a) ==
  IF a = Nil THEN <<>>
  ELSE <<nodes[a].Value>> \o ChainValues(nodes[a].Next)

\* for aux := a; aux != nil; aux = aux.Next { count++ }
RECURSIVE ChainCount(_)
ChainCount(a) ==
  IF a = Nil THEN 0
  ELSE ChainCount(nodes[a].Next) + 1

\* The sequence in the opposite order.
Reverse(q) == [j \in 1..Len(q) |-> q[Len(q) + 1 - j]]

\* Values collecting the values from the bottom Node to the top one.
StackValuesBottomUp ==
  IF first = Nil THEN [nil |-> TRUE, values |-> <<>>]
  ELSE [nil |-> FALSE, values |-> Reverse(ChainValues(first))]

\* func (s *Stack) Values() any: nil, or a []any.
StackValues ==
  IF first = Nil THEN [nil |-> TRUE, values |-> <<>>]
  ELSE [nil |-> FALSE, values |-> ChainValues(first)]

\* func (s *Stack) IsEmpty() bool
StackIsEmpty == first = Nil

\* Size counting the Nodes below the top one.
StackSizeBelowFirst ==
  IF first = Nil THEN 0 ELSE ChainCount(nodes[first].Next)

\* func (s *Stack) Size() int
StackSize == ChainCount(first)

\* The calls of the methods that only read the Stack.
StackQuery(o, r) ==
  /\ UNCHANGED stackVars
  /\ StackReturns(o, Nil, r)

CallPeek == StackQuery("Peek", Peek)

CallStackValues == StackQuery("Values", [val |-> StackValues, ok |-> FALSE])

CallStackIsEmpty == StackQuery("IsEmpty", [val |-> Nil, ok |-> StackIsEmpty])

CallStackSize == StackQuery("Size", [val |-> StackSize, ok |-> FALSE])

NextStack ==
  \/ \E v \in ValueSet : Push(v)
  \/ Pop
  \/ CallPeek
  \/ CallStackValues
  \/ CallStackIsEmpty
  \/ CallStackSize

SpecStack == InitStack /\ [][NextStack]_vars

(***************************************************************************)
(* The functions of packages sort, fibonacci and euclidean run on one      *)
(* goroutine.  frames is its call stack: a frame holds the name of the     *)
(* function, its parameters and locals, and pc, the statement it is at.    *)
(* A call pushes the frame of the callee; a return pops the frame and      *)
(* leaves the returned value in result.                                    *)
(***************************************************************************)
\* The running frame.
Top == frames[Len(frames)]

\* Function f is the running one.
Running(f) ==
  /\ ~panicked
  /\ frames # <<>>
  /\ Top.fn = f

\* The running function moves on to frame f.
Goto(f) == frames' = [frames EXCEPT ![Len(frames)] = f]

\* The running function calls g and will go on at frame f.
Call(f, g) == frames' = Append([frames EXCEPT ![Len(frames)] = f], g)

\* The running function returns.
PopFrame == frames' = SubSeq(frames, 1, Len(frames) - 1)

\* What no step of these functions changes.
frameFrame ==
  <<intBits, requested, capacity, size, buckets, op, key, value, ret, index,
    sizeBefore, shadow, callerVars, stackVars, input>>

\* A program that calls one function of these packages.
InitFrames ==
  /\ intBits \in IntWidths
  /\ NoHashTable
  /\ NoCall
  /\ NoCallers
  /\ NoStack

(***************************************************************************)
(* Package sort (src/unnamed/part_004): QuickSort with Hoare's partition.  *)
(* A slice is a function on the indexes 0..len-1.                          *)
(***************************************************************************)
Elements == 1..MaxLen

Slices == UNION {[0..(n - 1) -> Elements] : n \in 0..MaxLen}

\* len(array)
ArrayLen(a) == Cardinality(DOMAIN a)

\* The frame of QuickSort(array, left, right) at its first statement.
QuickSortFrame(left, right) ==
  [fn |-> "QuickSort", pc |-> "if", left |-> left, right |-> right, p |-> 0]

\* The frame of partition(array, left, right) at its first statement.
partitionFrame(left, right) ==
  [fn |-> "partition", pc |-> "pivot", left |-> left, right |-> right,
   pivot |-> 0, i |-> 0, j |-> 0]

\* QuickSortSlice(array), or QuickSort(array, 0, len(array)-1), is called
\* on a slice.
InitSort ==
  /\ InitFrames
  /\ op \in {"QuickSortSlice", "QuickSort"}
  /\ array \in Slices
  /\ input = array
  /\ frames = <<IF op = "QuickSortSlice"
                THEN [fn |-> "QuickSortSlice", pc |-> "if"]
                ELSE QuickSortFrame(0, ArrayLen(array) - 1)>>
  /\ result = 0

\* swap leaving the slice as it is.
swapNothing(a, i, j) == a

\* swap storing array[j] at i and leaving array[j] as it is.
swapOverwrites(a, i, j) == [a EXCEPT ![i] = a[j]]

\* func swap(array []int, i, j int)
swap(a, i, j) == [a EXCEPT ![i] = a[j], ![j] = a[i]]

\* func IsSorted(array []int) bool
IsSorted(a) ==
  \A i \in 1..(ArrayLen(a) - 1) : ~(a[i] < a[i - 1])

\* A step of func partition(array []int, left, right int) int.  A read
\* of array at an index outside 0..len-1 panics.
partition ==
  /\ Running("partition")
  /\ LET f == Top
     IN  CASE f.pc = "pivot" ->
                IF f.left \in DOMAIN array
                THEN /\ Goto([f EXCEPT !.pivot = array[f.left],
                                       !.i = f.left - 1,
                                       !.j = f.right + 1,
                                       !.pc = "j"])
                     /\ UNCHANGED <<array, result, panicked>>
                ELSE /\ panicked' = TRUE
                     /\ UNCHANGED <<frames, array, result>>
           [] f.pc = "j" ->
                IF f.j - 1 \in DOMAIN array
                THEN /\ Goto([f EXCEPT !.j = f.j - 1,
                                       !.pc = IF array[f.j - 1] <= f.pivot
                                              THEN "i" ELSE "j"])
                     /\ UNCHANGED <<array, result, panicked>>
                ELSE /\ panicked' = TRUE
                     /\ UNCHANGED <<frames, array, result>>
           [] f.pc = "i" ->
                IF f.i + 1 \in DOMAIN array
                THEN /\ Goto([f EXCEPT !.i = f.i + 1,
                                       !.pc = IF array[f.i + 1] >= f.pivot
                                              THEN "if" ELSE "i"])
                     /\ UNCHANGED <<array, result, panicked>>
                ELSE /\ panicked' = TRUE
                     /\ UNCHANGED <<frames, array, result>>
           [] f.pc = "if" ->
                IF f.i < f.j
                THEN /\ array' = swap(array, f.i, f.j)
                     /\ Goto([f EXCEPT !.pc = "j"])
                     /\ UNCHANGED <<result, panicked>>
                ELSE /\ result' = f.j
                     /\ PopFrame
                     /\ UNCHANGED <<array, panicked>>
  /\ UNCHANGED frameFrame

\* A step of func QuickSort(array []int, left, right int).
QuickSort ==
  /\ Running("QuickSort")
  /\ LET f == Top
     IN  CASE f.pc = "if" ->
                /\ IF f.left < f.right
                   THEN Call([f EXCEPT !.pc = "left"],
                             partitionFrame(f.left, f.right))
                   ELSE PopFrame
                /\ UNCHANGED result
           [] f.pc = "left" ->
                /\ Call([f EXCEPT !.p = result, !.pc = "right"],
                        QuickSortFrame(f.left, result))
                /\ UNCHANGED result
           [] f.pc = "right" ->
                /\ Call([f EXCEPT !.pc = "return"],
                        QuickSortFrame(f.p + 1, f.right))
                /\ UNCHANGED result
           [] f.pc = "return" ->
                /\ PopFrame
                /\ UNCHANGED result
  /\ UNCHANGED <<array, panicked, frameFrame>>

\* A step of func QuickSortSlice(array []int).
QuickSortSlice ==
  /\ Running("QuickSortSlice")
  /\ LET f == Top
     IN  IF f.pc = "if" /\ ArrayLen(array) > 1
         THEN Call([f EXCEPT !.pc = "return"],
                   QuickSortFrame(0, ArrayLen(array) - 1))
         ELSE PopFrame
  /\ UNCHANGED <<array, result, panicked, frameFrame>>

NextSort ==
  \/ QuickSortSlice
  \/ QuickSort
  \/ partition

SpecSort == InitSort /\ [][NextSort]_vars

\* partition(array, left, right) is called with 0 <= left <= right <
\* len(array); input is the call.
InitPartition ==
  /\ InitFrames
  /\ op = "partition"
  /\ array \in Slices
  /\ \E left, right \in DOMAIN array :
       /\ left <= right
       /\ input = [array |-> array, left |-> left, right |-> right]
       /\ frames = <<partitionFrame(left, right)>>
  /\ result = 0

\* One of the three functions is called.  The program is sequential: a
\* call that can take a step takes it.
SpecPartition ==
  /\ InitSort \/ InitPartition
  /\ [][NextSort]_vars
  /\ WF_vars(NextSort)

(***************************************************************************)
(* Package fibonacci (src/pkg/fibonacci/fibonacci.go): Fibonacci and       *)
(* FibonacciSum.  For the arguments up to MaxFib every sum stays far below *)
(* 2^31, so no addition wraps on either width of int.                      *)
(***************************************************************************)
\* FibonacciSum(n) is called.
InitFibonacci ==
  /\ InitFrames
  /\ op = "FibonacciSum"
  /\ input \in (0 - 2)..MaxFib
  /\ frames = <<[fn |-> "FibonacciSum", pc |-> "if", n |-> input]>>
  /\ array = <<>>
  /\ result = 0

\* A step of func Fibonacci(n int) int.
Fibonacci ==
  /\ Running("Fibonacci")
  /\ LET f == Top
     IN  CASE f.pc = "if" ->
                IF f.n < 0 THEN result' = 0 /\ PopFrame
                ELSE IF f.n <= 1 THEN result' = f.n /\ PopFrame
                ELSE /\ Goto([f EXCEPT !.a = 0, !.b = 1, !.i = 2,
                                       !.pc = "for"])
                     /\ UNCHANGED result
           [] f.pc = "for" ->
                IF f.i <= f.n
                THEN /\ Goto([f EXCEPT !.a = f.b, !.b = f.a + f.b,
                                       !.i = f.i + 1])
                     /\ UNCHANGED result
                ELSE result' = f.b /\ PopFrame
  /\ UNCHANGED <<array, panicked, frameFrame>>

\* A step of func FibonacciSum(n int) int.
FibonacciSum ==
  /\ Running("FibonacciSum")
  /\ LET f == Top
     IN  CASE f.pc = "if" ->
                IF f.n <= 0 THEN result' = 0 /\ PopFrame
                ELSE /\ Call([f EXCEPT !.pc = "return"],
                             [fn |-> "Fibonacci", pc |-> "if", n |-> f.n + 2,
                              a |-> 0, b |-> 0, i |-> 0])
                     /\ UNCHANGED result
           [] f.pc = "return" ->
                result' = result - 1 /\ PopFrame
  /\ UNCHANGED <<array, panicked, frameFrame>>

NextFibonacci ==
  \/ FibonacciSum
  \/ Fibonacci

SpecFibonacci == InitFibonacci /\ [][NextFibonacci]_vars

(***************************************************************************)
(* Package euclidean (src/pkg/euclidean/euclidean.go): GCD, GCDRecursive   *)
(* and ExtendedGCD.  Go's / truncates toward zero, its % has the sign of   *)
(* the dividend, and -x wraps around at the smallest int.                  *)
(***************************************************************************)
\* The largest and the smallest int of a build whose int has 32 bits.
MaxInt32 == (2^30 - 1) + 2^30

MinInt32 == (0 - 2^30) - 2^30

\* x is the smallest int of the build: -x wraps around to x itself.  The
\* smallest int of a 64-bit build is outside the numbers of the model.
IsMinInt(x) == intBits = 32 /\ x = MinInt32

\* -x of Go.
Minus(x) == IF IsMinInt(x) THEN x ELSE 0 - x

\* if x < 0 { x = -x }
Abs(x) == IF x < 0 THEN Minus(x) ELSE x

\* a / b of Go, b # 0.
Quo(a, b) ==
  IF (a < 0) = (b < 0) THEN Abs(a) \div Abs(b)
  ELSE 0 - (Abs(a) \div Abs(b))

\* a % b of Go, b # 0.
Rem(a, b) ==
  IF IsMinInt(b) THEN (IF a = b THEN 0 ELSE a)
  ELSE IF IsMinInt(a) THEN 0 - (((MaxInt32 % Abs(b)) + 1) % Abs(b))
  ELSE IF a < 0 THEN 0 - (Abs(a) % Abs(b))
  ELSE a % Abs(b)

\* GCD: for b != 0 { remainder := a % b; a = b; b = remainder }; return a
RECURSIVE GCDLoop(_, _)
GCDLoop(a, b) == IF b = 0 THEN a ELSE GCDLoop(b, Rem(a, b))

\* func GCD(a, b int) int
GCD(a, b) ==
  IF Abs(a) < Abs(b) THEN GCDLoop(Abs(b), Abs(a))
  ELSE GCDLoop(Abs(a), Abs(b))

\* func GCDRecursive(a, b int) int
RECURSIVE GCDRecursive(_, _)
GCDRecursive(a, b) ==
  IF Abs(b) = 0 THEN Abs(a)
  ELSE GCDRecursive(Abs(b), Rem(Abs(a), Abs(b)))

IntArgs == (0 - MaxAbs)..MaxAbs

\* ExtendedGCD(a, b) is called.
InitEuclidean ==
  /\ InitFrames
  /\ op = "ExtendedGCD"
  /\ input \in IntArgs \X IntArgs
  /\ frames = <<[fn |-> "ExtendedGCD", pc |-> "if",
                 a |-> input[1], b |-> input[2]]>>
  /\ array = <<>>
  /\ result = <<0, 0, 0>>

\* A step of func ExtendedGCD(a, b int) (gcd, x, y int); result is
\* <<gcd, x, y>>.
ExtendedGCD ==
  /\ Running("ExtendedGCD")
  /\ LET f == Top
     IN  CASE f.pc = "if" ->
                IF f.b = 0 THEN result' = <<f.a, 1, 0>> /\ PopFrame
                ELSE /\ Call([f EXCEPT !.pc = "return"],
                             [fn |-> "ExtendedGCD", pc |-> "if",
                              a |-> f.b, b |-> Rem(f.a, f.b)])
                     /\ UNCHANGED result
           [] f.pc = "return" ->
                /\ result' = <<result[1], result[3],
                               result[2] - Quo(f.a, f.b) * result[3]>>
                /\ PopFrame
  /\ UNCHANGED <<array, panicked, frameFrame>>

NextEuclidean == ExtendedGCD

SpecEuclidean == InitEuclidean /\ [][NextEuclidean]_vars

\* The arguments of the two GCD functions: the small integers and, where
\* the model holds it, the smallest int of the build.
GCDArgs == IF intBits = 32 THEN IntArgs \cup {MinInt32} ELSE IntArgs

\* The body of the loop of TestGCDConsistency is entered with a, b.
InitGCD ==
  /\ InitFrames
  /\ op = "TestGCDConsistency"
  /\ input \in GCDArgs \X GCDArgs
  /\ frames = <<[fn |-> "TestGCDConsistency", pc |-> "iterative",
                 a |-> input[1], b |-> input[2],
                 iterative |-> 0, recursive |-> 0]>>
  /\ array = <<>>
  /\ result = <<0, 0>>

\* A step of the body of the loop of TestGCDConsistency; result is
\* <<iterative, recursive>>.
TestGCDConsistency ==
  /\ Running("TestGCDConsistency")
  /\ LET f == Top
     IN  CASE f.pc = "iterative" ->
                /\ Goto([f EXCEPT !.iterative = GCD(f.a, f.b),
                                  !.pc = "recursive"])
                /\ UNCHANGED result
           [] f.pc = "recursive" ->
                /\ Goto([f EXCEPT !.recursive = GCDRecursive(f.a, f.b),
                                  !.pc = "if"])
                /\ UNCHANGED result
           [] f.pc = "if" ->
                /\ result' = <<f.iterative, f.recursive>>
                /\ PopFrame
  /\ UNCHANGED <<array, panicked, frameFrame>>

NextGCD == TestGCDConsistency

SpecGCD == InitGCD /\ [][NextGCD]_vars

(***************************************************************************)
(* Properties.                                                             *)
(***************************************************************************)
\* The sum of the lengths of buckets[from..capacity-1].
RECURSIVE BucketLenSum(_)
BucketLenSum(from) ==
  IF from >= capacity THEN 0
  ELSE Len(buckets[from]) + BucketLenSum(from + 1)

\* The key has an entry in some bucket.
Stored(k) == \E b \in DOMAIN buckets :
               \E i \in 1..Len(buckets[b]) : buckets[b][i].key = k

\* C1: Size consistency.  In every reachable state the counter Size()
\* returns equals the sum of the lengths of all buckets and equals
\* len(Keys()).
SizeConsistency ==
  /\ Size = BucketLenSum(0)
  /\ Size = Len(Keys)

\* A key was deleted from a store that still holds two or more keys.
SizeConsistencyWitness ==
  /\ op = "Delete"
  /\ ret.ok
  /\ size >= 2

\* C2: Uniqueness.  In every reachable state each key occurs in at most
\* one entry across all buckets: Keys() never holds the same key twice.
Uniqueness ==
  \A i, j \in 1..Len(Keys) : i # j => Keys[i] # Keys[j]

\* Put was called with a key that was stored already, at the second place
\* of a bucket or later.
UniquenessWitness ==
  /\ op = "Put"
  /\ ~panicked
  /\ ~ret.ok
  /\ Find(buckets[index], key) >= 2

\* C8: Placement.  In every reachable state every entry with key k is
\* stored in bucket number hash(k) and in no other bucket.
Placement ==
  \A b \in DOMAIN buckets :
    \A i \in 1..Len(buckets[b]) : hash(buckets[b][i].key) = b

\* Two buckets other than the first hold entries.
PlacementWitness ==
  \E b1, b2 \in DOMAIN buckets :
    /\ 0 < b1
    /\ b1 < b2
    /\ buckets[b1] # <<>>
    /\ buckets[b2] # <<>>

\* C3: Put/Get round trip.  For every key k, every value v and every
\* reachable state, Put(k, v) returns and the Get(k) that follows it with
\* no operation in between returns (v, true).
PutGetRoundTrip ==
  op = "Put" =>
    /\ ~panicked
    /\ Get(key) = [val |-> value, ok |-> TRUE]

\* C4: Put insert/update semantics.  Put(k, v) returns true exactly when k
\* was not stored before the call, and then Size() grows by exactly 1;
\* when k was stored it returns false, Size() is unchanged and Get(k)
\* returns the new v afterwards.
PutInsertUpdate ==
  [][op' = "Put" =>
       /\ ~panicked'
       /\ ret'.ok = ~Stored(key')
       /\ size' = (IF Stored(key') THEN size ELSE size + 1)
       /\ Stored(key') => (Get(key))' = [val |-> value', ok |-> TRUE]
    ]_vars

\* C5: Delete of a stored key.  In every reachable state in which k is
\* stored, Delete(k) returns true, decreases Size() by exactly 1, and
\* afterwards Get(k) returns found = false and Contains(k) is false.
DeleteStored ==
  [][op' = "Delete" /\ Stored(key') =>
       /\ ~panicked'
       /\ ret'.ok
       /\ size' = size - 1
       /\ ~(Get(key).ok)'
       /\ ~(Contains(key))'
    ]_vars

\* Delete removed a key from a bucket that still holds another entry.
DeleteStoredWitness ==
  /\ op = "Delete"
  /\ ret.ok
  /\ buckets[index] # <<>>

\* C6: Delete of an absent key is a no-op.  In every reachable state in
\* which k is not stored, Delete(k) returns false and leaves size, capacity
\* and the contents and order of every bucket unchanged.
DeleteAbsentNoOp ==
  [][op' = "Delete" /\ ~Stored(key') =>
       /\ ~panicked'
       /\ ~ret'.ok
       /\ UNCHANGED store
    ]_vars

\* C7: Absence is signalled by the flag.  Get(k) never fails; it returns
\* (nil, false) exactly when k is not stored (never put, or deleted or
\* cleared since its last Put) and (v, true), v the value of the most
\* recent Put(k, v), otherwise.
GetAbsenceFlag ==
  op = "Get" =>
    /\ ~panicked
    /\ ret = (IF key \in DOMAIN shadow
              THEN [val |-> shadow[key], ok |-> TRUE]
              ELSE [val |-> Nil, ok |-> FALSE])

\* C9: Bucket index range.  The index hash computes, int(h) % capacity,
\* lies in [0, capacity) for every key, so Put, Get and Delete never index
\* outside the bucket array, also when int is 32 bits wide and h >= 2^31.
IndexInRange ==
  /\ index \in 0..(capacity - 1)
  /\ ~panicked

\* C10: Collision resilience.  When more distinct keys are inserted than
\* there are buckets, every inserted key is still returned by Get with its
\* own value, Size() is the number of distinct keys, and each key can be
\* deleted individually without changing the value or presence of the
\* others.
CollisionResilience ==
  /\ [](size > capacity =>
          /\ \A k \in DOMAIN shadow :
               Get(k) = [val |-> shadow[k], ok |-> TRUE]
          /\ Size = Cardinality(DOMAIN shadow))
  /\ [][size > capacity /\ op' = "Delete" /\ key' \in DOMAIN shadow =>
          /\ ret'.ok
          /\ \A j \in DOMAIN shadow \ {key'} :
               /\ Get(j).ok
               /\ (Get(j))' = Get(j)
       ]_vars

\* A key was deleted from a store of one bucket that still holds more keys
\* than it has buckets.
CollisionResilienceWitness ==
  /\ op = "Delete"
  /\ ret.ok
  /\ capacity = 1
  /\ size > capacity

\* C11: Put and Delete touch only their own key.  For every reachable
\* state and every key j other than k, Get(j) gives the same result (or
\* fails the same way) before and after Put(k, v) and before and after
\* Delete(k), also when j and k are in the same bucket.
OwnKeyOnly ==
  [][op' \in {"Put", "Delete"} =>
       \A j \in KeySet \ {key'} :
         /\ (InRange(hash(j)))' = InRange(hash(j))
         /\ InRange(hash(j)) => (Get(j))' = Get(j)
    ]_vars

\* Delete removed a key from a bucket in which another key is stored.
OwnKeyOnlyWitness ==
  /\ op = "Delete"
  /\ ~panicked
  /\ ret.ok
  /\ \E j \in KeySet \ {key} : hash(j) = index /\ Stored(j)

\* C12: Clear empties the store.  From every reachable state, after
\* Clear() every bucket is empty, Size() is 0, IsEmpty() is true, Keys() is
\* empty and Contains(k) is false for every key k stored before.
ClearEmpties ==
  [][op' = "Clear" =>
       /\ \A b \in DOMAIN buckets' : buckets'[b] = <<>>
       /\ Size' = 0
       /\ IsEmpty'
       /\ Keys' = <<>>
       /\ \A k \in KeySet : Stored(k) => ~(Contains(k))'
    ]_vars

\* Clear was called on a store holding two or more keys.
ClearEmptiesWitness ==
  /\ op = "Clear"
  /\ sizeBefore >= 2
  /\ size = 0

\* C13: Clear is idempotent.  In the state a Clear() leaves, a second
\* Clear() changes nothing: its loop leaves every bucket as it is, and
\* Size() is 0 and IsEmpty() true already.
ClearIdempotent ==
  op = "Clear" =>
    /\ ClearBuckets(buckets) = buckets
    /\ Size = 0
    /\ IsEmpty

\* Clear was called on the store a Clear (or New) leaves: an empty one.
ClearIdempotentWitness ==
  /\ op = "Clear"
  /\ sizeBefore = 0
  /\ IsEmpty

\* C14: One steady state.  After New, after Clear() and after the Delete
\* of the last key, a following Put(k, v) returns true and Get(k) returns
\* (v, true), with the invariants still holding.
SteadyState ==
  [][/\ op \in {"New", "Clear"} \/ (op = "Delete" /\ size = 0)
     /\ op' = "Put"
     =>
     /\ ~panicked'
     /\ ret'.ok
     /\ (Get(key))' = [val |-> value', ok |-> TRUE]
     /\ SizeConsistency'
     /\ Uniqueness'
     /\ Placement'
    ]_vars

\* C15: Construction normalises invalid capacities.  New(c) yields a store
\* of capacity c when c > 0 and of capacity 16 when c <= 0; the number of
\* buckets equals the capacity, every bucket is empty and size is 0.
NewNormalises ==
  op = "New" =>
    /\ capacity = (IF requested > 0 THEN requested ELSE 16)
    /\ DOMAIN buckets = 0..(capacity - 1)
    /\ \A b \in DOMAIN buckets : buckets[b] = <<>>
    /\ size = 0

\* New was called with a negative capacity.
NewNormalisesWitness ==
  /\ op = "New"
  /\ requested < 0
  /\ Cardinality(DOMAIN buckets) = 16

\* C16: No resizing.  capacity and the number of buckets are positive and
\* never change after construction, also when Size() exceeds capacity.
NoResizing ==
  /\ [](/\ capacity > 0
        /\ DOMAIN buckets = 0..(capacity - 1))
  /\ [][/\ capacity' = capacity
        /\ DOMAIN buckets' = DOMAIN buckets]_vars

\* A new key was put into a store that then holds more keys than buckets.
NoResizingWitness ==
  /\ op = "Put"
  /\ ret.ok
  /\ capacity = 2
  /\ size > capacity

\* C17: Contains agrees with Get.  In every reachable state and for every
\* key k, Contains(k) equals the found flag of Get(k), and it is true
\* exactly when k is an element of Keys().
ContainsAgreesWithGet ==
  /\ \A k \in KeySet :
       /\ InRange(hash(k)) => Contains(k) = Get(k).ok
       /\ (InRange(hash(k)) /\ Contains(k))
            <=> (\E i \in 1..Len(Keys) : Keys[i] = k)
  /\ (op = "Contains" /\ ~panicked) => ret.ok = Get(key).ok

\* Contains returned true for a key whose stored value is nil.
ContainsAgreesWithGetWitness ==
  /\ op = "Contains"
  /\ ~panicked
  /\ ret.ok
  /\ Get(key).val = Nil

\* C18: Bulk extraction is complete and exact.  Keys() holds exactly the
\* stored keys, each once; GetPairs() holds exactly one pair (k, v) per
\* stored key k, v the value Get(k) returns; Values() is the multiset of
\* those values; all three have length Size().
BulkExtraction ==
  /\ Len(Keys) = Size
  /\ Len(Values) = Size
  /\ Len(GetPairs) = Size
  /\ \A k \in KeySet :
       Cardinality({i \in 1..Len(Keys) : Keys[i] = k})
         = (IF Stored(k) THEN 1 ELSE 0)
  /\ \A k \in KeySet :
       Cardinality({i \in 1..Len(GetPairs) : GetPairs[i].key = k})
         = (IF Stored(k) THEN 1 ELSE 0)
  /\ \A i \in 1..Len(GetPairs) :
       Get(GetPairs[i].key) = [val |-> GetPairs[i].value, ok |-> TRUE]
  /\ \A v \in ValueSet :
       Cardinality({i \in 1..Len(Values) : Values[i] = v})
         = Cardinality({k \in KeySet : Stored(k) /\ Get(k).val = v})

\* GetPairs returned three or more pairs, from two or more buckets.
BulkExtractionWitness ==
  /\ op = "GetPairs"
  /\ Len(ret.val) >= 3
  /\ hash(ret.val[1].key) # hash(ret.val[Len(ret.val)].key)

\* C19: Values follows the order of Keys.  On one state, for every index
\* i, Get(Keys()[i]) is (Values()[i], true) and GetPairs()[i] is
\* (Keys()[i], Values()[i]).
ValuesFollowKeys ==
  /\ Len(Values) = Len(Keys)
  /\ Len(GetPairs) = Len(Keys)
  /\ \A i \in 1..Len(Keys) :
       /\ Get(Keys[i]) = [val |-> Values[i], ok |-> TRUE]
       /\ GetPairs[i] = [key |-> Keys[i], value |-> Values[i]]

\* Values returned different values for keys of two different buckets.
ValuesFollowKeysWitness ==
  /\ op = "Values"
  /\ Len(ret.val) >= 2
  /\ ret.val[1] # ret.val[Len(ret.val)]
  /\ hash(Keys[1]) # hash(Keys[Len(Keys)])

\* The methods that only read the store.
QueryOps ==
  {"Get", "Contains", "Size", "IsEmpty", "Keys", "Values", "GetPairs",
   "LoadFactor", "BucketDistribution", "String"}

\* C20: Queries do not mutate.  Get, Contains, Size, IsEmpty, Keys, Values,
\* GetPairs, LoadFactor, BucketDistribution and String leave size, capacity
\* and the contents and order of every bucket unchanged, for present and
\* for absent keys.
QueriesDoNotMutate ==
  [][op' \in QueryOps => UNCHANGED store]_vars

\* Get found a key that is not the first entry of its bucket.
QueriesDoNotMutateWitness ==
  /\ op = "Get"
  /\ ~panicked
  /\ ret.ok
  /\ Find(buckets[index], key) >= 2

\* f * float64(c) == float64(s) for the float64 f nearest to the fraction
\* q = <<n, d>> in lowest terms, c >= 1 and s >= 0.  When q is not s / c
\* the product is off by 1 / d or more.  When it is, c = g * d and the
\* product is s + g * err / 2^exp, which rounds to s exactly when
\* g * err / 2^exp is at most half the distance from s to the next float64
\* on its side (2^(u-52) above s, and below s too unless s = 2^u).
TimesEquals(q, c, s) ==
  IF q[1] * c # s * q[2] THEN FALSE
  ELSE IF s = 0 THEN TRUE
  ELSE LET e == QuoError(q[1], q[2])
           g == c \div q[2]
           u == Log2Quo(s, 1)
           k == e.exp + u - MantissaBits
           AtMost(x, j) == IF j >= 0 THEN x <= 2^j ELSE x = 0
       IN  IF e.err >= 0 THEN AtMost(g * e.err, k)
           ELSE AtMost(g * (0 - e.err), IF s = 2^u THEN k - 1 ELSE k)

\* The fraction is a multiple of a power of 1/2: the float64 nearest to it
\* is the fraction itself.
RECURSIVE IsPowerOfTwo(_)
IsPowerOfTwo(d) == d = 1 \/ (d > 1 /\ d % 2 = 0 /\ IsPowerOfTwo(d \div 2))

IsDyadic(q) == IsPowerOfTwo(q[2])

\* C21 without the product: LoadFactor() is the quotient of Size() by
\* capacity, 0 for an empty store, 1/2 when half as many keys as buckets are
\* stored, 1 when as many; a Put of a key that is already stored leaves it
\* as it was.
LoadFactorQuotient ==
  /\ LoadFactor[2] > 0
  /\ LoadFactor[1] * capacity = Size * LoadFactor[2]
  /\ (Size = 0 => LoadFactor = <<0, 1>>)
  /\ (2 * Size = capacity => LoadFactor = <<1, 2>>)
  /\ (Size = capacity => LoadFactor = <<1, 1>>)
  /\ (op = "Put" /\ ~panicked /\ ~ret.ok =>
        LoadFactor[1] * capacity = sizeBefore * LoadFactor[2])
  /\ (op = "LoadFactor" => ret.val = LoadFactor)

\* C21: Load factor.  In every reachable state LoadFactor() is Size()
\* divided by capacity and LoadFactor() * capacity == Size(); it is 0 for
\* an empty store, 0.5 when half as many keys as buckets are stored, 1.0
\* when as many, and a Put of a stored key does not change it.
LoadFactorTimesCapacity ==
  /\ LoadFactorQuotient
  /\ TimesEquals(LoadFactor, capacity, Size)

\* C21, amended: LoadFactor() is the float64 nearest to Size() / capacity;
\* LoadFactor() * capacity == Size() when that quotient is a float64
\* itself (0, 1/2, 1, every quotient by a power of two), and the other
\* parts of the claim hold as stated.
LoadFactorIsRatio ==
  /\ LoadFactorQuotient
  /\ (IsDyadic(LoadFactor) => TimesEquals(LoadFactor, capacity, Size))

\* LoadFactor() returned 0.5: one key stored in a store of two buckets.
LoadFactorIsRatioWitness ==
  /\ op = "LoadFactor"
  /\ ret.val = <<1, 2>>
  /\ Size = 1
  /\ capacity = 2

\* The sum of f[l] * W(l) over the domain of the map f.
RECURSIVE TallySum(_, _, _)
TallySum(f, ls, weighted) ==
  IF ls = {} THEN 0
  ELSE LET l == CHOOSE x \in ls : TRUE
       IN  (IF weighted THEN l * f[l] ELSE f[l])
             + TallySum(f, ls \ {l}, weighted)

\* C22: Bucket distribution.  In every reachable state
\* BucketDistribution() maps each length L to the number of buckets that
\* hold exactly L entries, the empty buckets under L = 0 (an empty store of
\* capacity c yields {0: c}); the counts add up to capacity and the sum of
\* L * count is Size().
BucketDistributionTally ==
  LET d == BucketDistribution
  IN  /\ \A b \in DOMAIN buckets : Len(buckets[b]) \in DOMAIN d
      /\ \A l \in DOMAIN d :
            /\ d[l] > 0
            /\ d[l] = Cardinality({b \in DOMAIN buckets : Len(buckets[b]) = l})
      /\ (Size = 0 => DOMAIN d = {0} /\ d[0] = capacity)
      /\ TallySum(d, DOMAIN d, FALSE) = capacity
      /\ TallySum(d, DOMAIN d, TRUE) = Size
      /\ (op = "BucketDistribution" => ret.val = d)

\* BucketDistribution() returned a map with an entry for the empty buckets
\* and one for the buckets of two entries.
BucketDistributionTallyWitness ==
  /\ op = "BucketDistribution"
  /\ DOMAIN ret.val = {0, 2}

\* A key whose Put has returned, with no Delete of it returning true
\* since, is not stored.
Lost == \E k \in DOMAIN shadow : ~Stored(k)

\* C23: External mutual exclusion is required.  When two callers run Put
\* and Delete on one store under one exclusive lock, no state between two
\* calls has an inserted key that is not found, a key stored twice, or a
\* Size() that differs from the sum of the bucket lengths; without the
\* lock the steps of two calls interleave and such a state is reached.
MutualExclusion ==
  locking /\ mutex = Nil =>
    /\ ~Lost
    /\ Uniqueness
    /\ Size = BucketLenSum(0)

\* Without the lock, two Puts of different keys have both returned; the
\* key of the first caller is not found, and Size() is 2 for one entry.
MutualExclusionWitness ==
  /\ ~locking
  /\ ~panicked
  /\ calls = 2
  /\ \A t \in Callers : callers[t].pc = "idle" /\ callers[t].op = "Put"
  /\ callers[1].key # callers[2].key
  /\ ~Stored(callers[1].key)
  /\ Lost
  /\ Size = 2
  /\ BucketLenSum(0) = 1

\* C24: Stack LIFO order.  Each Pop that returns true returns the value
\* pushed last among the values not yet popped, so n Pops after the Pushes
\* of x1..xn return xn..x1; the Stack is empty exactly when every pushed
\* value has been popped.
StackLIFO ==
  /\ [](StackIsEmpty <=> pending = <<>>)
  /\ [][op' = "Pop" /\ ret'.ok =>
          /\ pending # <<>>
          /\ ret'.val = pending[Len(pending)]
          /\ pending' = SubSeq(pending, 1, Len(pending) - 1)]_vars

\* All of MaxPushes pushed values have been popped by as many Pops.
StackLIFOWitness ==
  /\ op = "Pop"
  /\ ret.ok
  /\ pushes = MaxPushes
  /\ pops = pushes
  /\ StackIsEmpty

\* C25: Stack empty-case handling.  On an empty Stack Pop and Peek return
\* (nil, false) and leave it empty; on a Stack that is not empty both
\* return true as their flag.
StackEmptyCase ==
  [][op' \in {"Pop", "Peek"} =>
       IF StackIsEmpty
       THEN ret' = NoRet /\ StackIsEmpty' /\ UNCHANGED stackVars
       ELSE ret'.ok]_vars

\* Pop has returned (nil, false) on a Stack emptied by Pops.
StackEmptyCaseWitness ==
  /\ op = "Pop"
  /\ ret = NoRet
  /\ pushes >= 1
  /\ pops = pushes
  /\ StackIsEmpty

\* C26: Stack Peek is read-only.  Peek leaves the Stack and its Size() as
\* they were, and a Pop that follows it returns the value Peek returned;
\* Size() is the number of Pushes minus the number of Pops that returned
\* true, and IsEmpty() holds exactly when Size() is 0.
StackPeekReadOnly ==
  /\ [](StackSize = pushes - pops /\ (StackIsEmpty <=> StackSize = 0))
  /\ [][op' = "Peek" =>
          UNCHANGED <<first, nodes>> /\ StackSize' = StackSize]_vars
  /\ [][op = "Peek" /\ ret.ok /\ op' = "Pop" => ret' = ret]_vars

\* Peek has returned the top value of a Stack of two values or more, after
\* a Pop.
StackPeekReadOnlyWitness ==
  /\ op = "Peek"
  /\ ret.ok
  /\ pops >= 1
  /\ StackSize >= 2

\* C27: Stack Values order.  Values() is nil for an empty Stack and
\* otherwise holds the stored values from top to bottom, the order in
\* which Pops would return them, and it leaves the Stack unchanged.
StackValuesOrder ==
  /\ [](/\ StackValues.nil <=> StackIsEmpty
        /\ StackValues.values = Reverse(pending)
        /\ (op = "Values" => ret.val = StackValues))
  /\ [][op' = "Values" => UNCHANGED stackVars]_vars

\* Values() has returned a slice whose first two values differ.
StackValuesOrderWitness ==
  /\ op = "Values"
  /\ ~ret.val.nil
  /\ Len(ret.val.values) >= 2
  /\ ret.val.values[1] # ret.val.values[2]

\* The slice holds its elements in ascending order.
Ascending(a) == \A i, j \in DOMAIN a : i < j => a[i] <= a[j]

\* The two slices hold the same elements, each as many times.
IsPermutation(a, b) ==
  /\ DOMAIN a = DOMAIN b
  /\ \A e \in Elements :
        Cardinality({i \in DOMAIN a : a[i] = e})
          = Cardinality({i \in DOMAIN b : b[i] = e})

\* C28: QuickSort sorts.  When QuickSortSlice(array), or
\* QuickSort(array, 0, len(array)-1), has returned, the slice is in
\* ascending order, IsSorted is true of it, and it holds a permutation of
\* its original elements; no call panics.
QuickSortSorts ==
  /\ ~panicked
  /\ (frames = <<>> =>
        /\ Ascending(array)
        /\ IsSorted(array)
        /\ IsPermutation(array, input))

\* QuickSort has returned from a slice of three elements in descending
\* order, with two of them equal.
QuickSortSortsWitness ==
  /\ frames = <<>>
  /\ op = "QuickSort"
  /\ ArrayLen(input) = 3
  /\ input[0] > input[1]
  /\ input[1] = input[2]
  /\ array # input

\* The Fibonacci numbers: F(0) = 0, F(1) = 1, F(k) = F(k-1) + F(k-2).
RECURSIVE F(_)
F(k) == IF k <= 1 THEN k ELSE F(k - 1) + F(k - 2)

\* F(0) + ... + F(n-1)
RECURSIVE FirstSum(_)
FirstSum(n) == IF n <= 0 THEN 0 ELSE FirstSum(n - 1) + F(n - 1)

\* C29: FibonacciSum(n) returns the sum of the first n Fibonacci numbers,
\* F(0) + F(1) + ... + F(n-1), for n >= 1 (FibonacciSum(6) = 12), and 0
\* for n <= 0.
FibonacciSumOfFirst ==
  frames = <<>> => result = FirstSum(input)

\* C30: Extended Euclid.  For every pair of integers a, b,
\* ExtendedGCD(a, b) returns (g, x, y) with a*x + b*y = g and
\* g = GCD(a, b).
ExtendedGCDBezout ==
  frames = <<>> =>
    /\ input[1] * result[2] + input[2] * result[3] = result[1]
    /\ result[1] = GCD(input[1], input[2])

\* C31: GCD implementations agree.  For every pair of integers a, b, zero
\* and negative arguments included, GCD(a, b) and GCDRecursive(a, b) return
\* the same non-negative result, with GCD(a, 0) = GCD(0, a) = |a| and
\* GCD(0, 0) = 0.
GCDConsistency ==
  (op = "TestGCDConsistency" /\ frames = <<>>) =>
    /\ result[1] >= 0
    /\ result[2] >= 0
    /\ result[1] = result[2]
    /\ input[2] = 0 =>
         result[1] = (IF input[1] < 0 THEN 0 - input[1] ELSE input[1])
    /\ input[1] = 0 =>
         result[1] = (IF input[2] < 0 THEN 0 - input[2] ELSE input[2])
    /\ input = <<0, 0>> => result[1] = 0

\* C32: Delete keeps bucket order.  When Delete(k) removes an entry from a
\* bucket (at its first, a middle or its last position), the entries that
\* remain in that bucket keep their keys, values and relative order, the
\* bucket becomes exactly one shorter, and no other bucket changes.
DeleteKeepsOrder ==
  [][op' = "Delete" /\ ret'.ok =>
       LET bucket == buckets[index']
           i == Find(bucket, key')
       IN  /\ i # 0
           /\ DOMAIN buckets' = DOMAIN buckets
           /\ Len(buckets'[index']) = Len(bucket) - 1
           /\ \A j \in 1..(i - 1) : buckets'[index'][j] = bucket[j]
           /\ \A j \in (i + 1)..Len(bucket) :
                buckets'[index'][j - 1] = bucket[j]
           /\ \A b \in DOMAIN buckets \ {index'} : buckets'[b] = buckets[b]
    ]_vars

\* Delete removed a key from a bucket of three entries or more: two or
\* more entries remain.
DeleteKeepsOrderWitness ==
  /\ op = "Delete"
  /\ ret.ok
  /\ Len(buckets[index]) >= 2

\* C33: Bucket order is insertion order.  The entries of each bucket are
\* ordered by the time their key was last newly inserted: every step keeps
\* the relative order of the keys that stay in a bucket and puts a key that
\* is new to the bucket behind them.  Put of an absent key appends at the
\* end of its bucket, and Put of a stored key replaces the value in place
\* and changes neither the entry's position, its key nor the bucket's
\* length.
BucketOrderIsInsertionOrder ==
  [][/\ DOMAIN buckets' = DOMAIN buckets
     /\ \A b \in DOMAIN buckets :
          \A i, j \in 1..Len(buckets'[b]) :
            (i < j /\ Find(buckets[b], buckets'[b][j].key) # 0) =>
              /\ Find(buckets[b], buckets'[b][i].key) # 0
              /\ Find(buckets[b], buckets'[b][i].key)
                   < Find(buckets[b], buckets'[b][j].key)
     /\ (op' = "Put" /\ ~Stored(key')) =>
          /\ ~panicked'
          /\ buckets' = [buckets EXCEPT
                           ![index'] = Append(@, [key |-> key',
                                                  value |-> value'])]
     /\ (op' = "Put" /\ Stored(key')) =>
          /\ ~panicked'
          /\ LET i == Find(buckets[index'], key')
             IN  /\ i # 0
                 /\ Len(buckets'[index']) = Len(buckets[index'])
                 /\ buckets'[index'][i] = [key |-> key', value |-> value']
                 /\ buckets' = [buckets EXCEPT ![index'][i].value = value']
    ]_vars

\* The (key, value) entries of all buckets, as a set.
EntrySet == {<<Entries(0)[i].key, Entries(0)[i].value>> :
               i \in 1..Len(Entries(0))}

\* The contents of the plain map shadow, as a set.
MapSet == {<<k, shadow[k]>> : k \in DOMAIN shadow}

\* C34: The store refines an abstract map.  Running the same sequence of
\* Put, Get, Delete, Contains, Size, IsEmpty and Clear calls on the
\* HashTable and on the plain key-to-value map shadow gives the same return
\* values at every step (no call fails), and after every step the set of
\* (key, value) entries over all buckets is the map's contents.
RefinesMap ==
  /\ [](/\ ~panicked
        /\ EntrySet = MapSet
        /\ Len(Entries(0)) = Cardinality(DOMAIN shadow)
        /\ op = "Get" =>
             ret = (IF key \in DOMAIN shadow
                    THEN [val |-> shadow[key], ok |-> TRUE]
                    ELSE [val |-> Nil, ok |-> FALSE])
        /\ op = "Contains" => ret.ok = (key \in DOMAIN shadow)
        /\ op = "Size" => ret.val = Cardinality(DOMAIN shadow)
        /\ op = "IsEmpty" => ret.ok = (DOMAIN shadow = {}))
  /\ [][/\ op' = "Put" =>
            /\ ret'.ok = (key' \notin DOMAIN shadow)
            /\ shadow' = [j \in DOMAIN shadow \cup {key'} |->
                            IF j = key' THEN value' ELSE shadow[j]]
        /\ op' = "Delete" =>
            /\ ret'.ok = (key' \in DOMAIN shadow)
            /\ shadow' = [j \in DOMAIN shadow \ {key'} |-> shadow[j]]
        /\ op' = "Clear" => shadow' = <<>>
       ]_vars

\* C35: Put then Delete is an inverse on an absent key.  In every reachable
\* state in which k is not stored, Put(k, v) returns with a store from
\* which the removal of k's entry gives back every bucket as it was, and
\* the Delete(k) that follows it with no call in between makes that
\* removal and returns size to what it was before the Put.
PutDeleteInverse ==
  [][/\ (op' = "Put" /\ ~Stored(key')) =>
          /\ ~panicked'
          /\ size' = size + 1
          /\ Find(buckets'[index'], key') # 0
          /\ [buckets' EXCEPT
                ![index'] = RemoveAt(@, Find(@, key'))] = buckets
     /\ (op = "Put" /\ ~panicked /\ ret.ok /\ op' = "Delete"
           /\ key' = key) =>
          /\ ~panicked'
          /\ ret'.ok
          /\ size' = sizeBefore
          /\ buckets' = [buckets EXCEPT
                           ![index] = RemoveAt(@, Find(@, key))]
    ]_vars

\* In partition the index that is used next to read the slice is within
\* left..right: j - 1 before "j--; array[j]", i + 1 before "i++; array[i]",
\* and i and j where they are compared and swapped.
ReadsWithinRange ==
  (frames # <<>> /\ Top.fn = "partition") =>
    LET f == Top
    IN  /\ f.left \in DOMAIN array
        /\ f.right \in DOMAIN array
        /\ f.pc = "j" => (f.j - 1) \in f.left..f.right
        /\ f.pc = "i" => (f.i + 1) \in f.left..f.right
        /\ f.pc = "if" => (f.i \in f.left..f.right
                            /\ f.j \in f.left..f.right)

\* partition returns in this step.
partitionReturns ==
  /\ frames # <<>>
  /\ Top.fn = "partition"
  /\ Len(frames') = Len(frames) - 1

\* QuickSort calls QuickSort in this step.
QuickSortRecurses ==
  /\ frames # <<>>
  /\ Top.fn = "QuickSort"
  /\ Len(frames') = Len(frames) + 1
  /\ Top'.fn = "QuickSort"

\* The range of the QuickSort called is within the caller's and strictly
\* smaller.
SmallerRange ==
  /\ Top.left <= Top'.left
  /\ Top'.left <= Top'.right
  /\ Top'.right <= Top.right
  /\ Top'.right - Top'.left < Top.right - Top.left

\* C36, as stated: QuickSort terminates within bounds.  For every slice and
\* every 0 <= left <= right < len(array), partition(array, left, right)
\* terminates, its indices i and j never leave left..right when they are
\* used to read the slice, and it returns p with left <= p < right, so
\* each recursive call of QuickSort works on a strictly smaller range and
\* the recursion ends.
PartitionBelowRight ==
  /\ [](~panicked /\ ReadsWithinRange)
  /\ [][partitionReturns =>
          (Top.left <= result' /\ result' < Top.right)]_vars
  /\ [][QuickSortRecurses => SmallerRange]_vars
  /\ <>(frames = <<>>)

\* C36, amended: the same for every 0 <= left < right < len(array); with
\* left = right partition returns p = left = right.
PartitionWithinBounds ==
  /\ [](~panicked /\ ReadsWithinRange)
  /\ [][partitionReturns =>
          IF Top.left < Top.right
          THEN Top.left <= result' /\ result' < Top.right
          ELSE result' = Top.left]_vars
  /\ [][QuickSortRecurses => SmallerRange]_vars
  /\ <>(frames = <<>>)

\* partition, called on a range that starts behind the first element, has
\* swapped elements and returned an index of the range below right.
PartitionWithinBoundsWitness ==
  /\ op = "partition"
  /\ frames = <<>>
  /\ 0 < input.left
  /\ input.left <= result
  /\ result < input.right
  /\ array # input.array

=============================================================================
